---- MODULE Spec2Model ----
(***************************************************************************)
(* Model of the load-balancer rename cascade (renameLoadBalancer and its   *)
(* name codec).  Strings are sequences of one-character strings, so that   *)
(* the regular-expression match of decomposeLBName and the first-          *)
(* occurrence replace of replaceClusterName are computed as the code       *)
(* computes them.  Spec is one caller retrying renameLoadBalancer,         *)
(* SpecMigrate the same behind lbHasOldClusterName, SpecCodec the codec on *)
(* its own, SpecConcurrent two invocations at once, and SpecCephx the      *)
(* share access flow of getOrCreateCephxAccess.                            *)
(***************************************************************************)
EXTENDS Integers, Sequences, FiniteSets, TLC

(* ------------------------------------------------------------------ *)
(* Name constants                                                      *)
(* ------------------------------------------------------------------ *)

\* "kube_service_"
servicePrefix == <<"k","u","b","e","_","s","e","r","v","i","c","e","_">>
\* "listener_"
listenerPrefix == <<"l","i","s","t","e","n","e","r","_">>
\* "pool_"
poolPrefix == <<"p","o","o","l","_">>
\* "monitor_"
monitorPrefix == <<"m","o","n","i","t","o","r","_">>

\* The empty string.
Empty == <<>>

\* The regular-expression element "[0-9]+" of the resource prefixes that
\* renameLoadBalancer builds with fmt.Sprintf("%s[0-9]+_", prefix).
DigitsPlus == "[0-9]+"

Digits == {"0","1","2","3","4","5","6","7","8","9"}

\* fmt.Sprintf("%s[0-9]+_", prefix)
IndexedPrefix(prefix) == prefix \o <<DigitsPlus, "_">>

(* ------------------------------------------------------------------ *)
(* Name codec                                                          *)
(* ------------------------------------------------------------------ *)

SetMin(S) == CHOOSE x \in S : \A y \in S : x <= y
SetMax(S) == CHOOSE x \in S : \A y \in S : x >= y

\* strings.HasPrefix
HasPrefix(s, p) == Len(p) <= Len(s) /\ SubSeq(s, 1, Len(p)) = p

\* strings.Index, 1-based; 0 when sub does not occur in s.
Index(s, sub) ==
  LET hits == {k \in 1..(Len(s) - Len(sub) + 1) : SubSeq(s, k, k + Len(sub) - 1) = sub}
  IN IF hits = {} THEN 0 ELSE SetMin(hits)

\* The positions right after a match of the pattern pat (literal characters
\* and DigitsPlus elements) that starts at position i of s.
RECURSIVE PrefixEnds(_, _, _)
PrefixEnds(pat, s, i) ==
  IF pat = <<>> THEN {i}
  ELSE IF Head(pat) = DigitsPlus
    THEN LET ends == {j \in i..Len(s) : \A k \in i..j : s[k] \in Digits}
         IN UNION {PrefixEnds(Tail(pat), s, j + 1) : j \in ends}
    ELSE IF i <= Len(s) /\ s[i] = Head(pat)
      THEN PrefixEnds(Tail(pat), s, i + 1)
      ELSE {}

\* Last position of the longest run of non-separator characters starting at
\* position i of s (i - 1 when the run is empty): the greedy match of [^_]+.
NonSepRunEnd(s, i) ==
  LET stops == {k \in i..Len(s) : s[k] = "_"}
  IN IF stops = {} THEN Len(s) ELSE SetMin(stops) - 1

\* The separators that may end the first group of "(.+)_([^_]+)_([^_]+)"
\* when the group starts at position p of s.
GroupCuts(s, p) ==
  {u \in (p + 1)..Len(s) :
     /\ s[u] = "_"
     /\ LET e2 == NonSepRunEnd(s, u + 1)
        IN /\ e2 >= u + 1
           /\ e2 + 1 <= Len(s)
           /\ NonSepRunEnd(s, e2 + 2) >= e2 + 2}

\* Groups with the shortest first group.
GroupsShortest(s, p) ==
  LET u  == SetMin(GroupCuts(s, p))
      e2 == NonSepRunEnd(s, u + 1)
      e3 == NonSepRunEnd(s, e2 + 2)
  IN <<SubSeq(s, p, u - 1), SubSeq(s, u + 1, e2), SubSeq(s, e2 + 2, e3)>>

\* The three groups for the greedy (longest) first group.
Groups(s, p) ==
  LET u  == SetMax(GroupCuts(s, p))
      e2 == NonSepRunEnd(s, u + 1)
      e3 == NonSepRunEnd(s, e2 + 2)
  IN <<SubSeq(s, p, u - 1), SubSeq(s, u + 1, e2), SubSeq(s, e2 + 2, e3)>>

\* decomposeLBName: the leftmost match of
\* resourcePrefix + servicePrefix + "(.+)_([^_]+)_([^_]+)" anywhere in lbName;
\* three empty strings when there is none.
decomposeLBName(resourcePrefix, lbName) ==
  LET pat == resourcePrefix \o servicePrefix
      ok(i) == {p \in PrefixEnds(pat, lbName, i) : GroupCuts(lbName, p) # {}}
      starts == {i \in 1..Len(lbName) : ok(i) # {}}
  IN IF starts = {} THEN <<Empty, Empty, Empty>>
     ELSE Groups(lbName, SetMax(ok(SetMin(starts))))

\* The clusterName component, the only one the callers use.
ClusterOf(resourcePrefix, name) == decomposeLBName(resourcePrefix, name)[1]

\* replaceClusterName: strings.Replace(objectName, oldClusterName, clusterName, 1).
\* An empty oldClusterName matches at the beginning of objectName.
replaceClusterName(oldClusterName, clusterName, objectName) ==
  IF oldClusterName = Empty THEN clusterName \o objectName
  ELSE LET k == Index(objectName, oldClusterName)
       IN IF k = 0 THEN objectName
          ELSE SubSeq(objectName, 1, k - 1) \o clusterName
               \o SubSeq(objectName, k + Len(oldClusterName), Len(objectName))


\* isManaged: strings.HasPrefix(name, prefix) gates every rename decision.
isManaged(name, prefix) == HasPrefix(name, prefix)

\* The per-tag rewrite of the listener and load-balancer tag loops: a tag that
\* decodes (no resource prefix) to another cluster name has that cluster name
\* replaced; every other tag is kept.
RewriteTag(tag, clusterName) ==
  LET oldClusterNameTag == ClusterOf(Empty, tag)
  IN IF oldClusterNameTag # Empty /\ oldClusterNameTag # clusterName
       THEN replaceClusterName(oldClusterNameTag, clusterName, tag)
       ELSE tag

RewriteTags(tags, clusterName) ==
  [k \in DOMAIN tags |-> RewriteTag(tags[k], clusterName)]

\* lbHasOldClusterName without the check of the load-balancer prefix.
lbHasOldClusterNameNoPrefixCheck(loadbalancerName, clusterName) ==
  ClusterOf(Empty, loadbalancerName) # clusterName

\* lbHasOldClusterName
lbHasOldClusterName(loadbalancerName, clusterName) ==
  IF ~HasPrefix(loadbalancerName, servicePrefix) THEN FALSE
  ELSE ClusterOf(Empty, loadbalancerName) # clusterName

(* ------------------------------------------------------------------ *)
(* State                                                               *)
(* ------------------------------------------------------------------ *)

VARIABLES
  lb,              \* the stored load balancer: [name, tags]
  listeners,       \* the stored listeners: ListenerIDs -> [name, tags]
  pools,           \* the stored pools: ListenerIDs -> [name, monitorID]
  monitors,        \* the stored monitor names (Empty where the pool has none)
  pc,              \* position of the renameLoadBalancer invocation
  clusterName,     \* argument clusterName
  lbName,          \* argument lbName
  lbTags,          \* loadbalancer.Tags of the argument
  lbListeners,     \* local lbListeners
  i,               \* index of the listener loop (1-based)
  oldClusterName,  \* local oldClusterName of the loop body
  lbPool,          \* local lbPool
  monitor,         \* local monitor
  oldMonitorClusterName, \* the inner oldClusterName of the monitor block
  err,             \* the error returned by the invocation (NoErr: none)
  calls,           \* the accessor calls of the invocation: <<op, id, result>>
  ninv,            \* invocations started so far
  tree0,           \* the stored tree at the start
  ndone,           \* invocations that have completed without error
  first,           \* the stored tree after the first invocation, when it completed
  codec,           \* a use of the name codec: its arguments and results
  world,           \* the stored resources of several load balancers
  world0,          \* world at the start
  procs,           \* concurrent invocations of renameLoadBalancer: their locals
  accessRights,    \* the access rules of the share, as the share service lists them
  cephx            \* an invocation of getOrCreateCephxAccess: its locals

(* ------------------------------------------------------------------ *)
(* Bounds and the trees the model starts from                          *)
(* ------------------------------------------------------------------ *)

\* Invocations of renameLoadBalancer in one behaviour.
MaxCalls == 2

\* The listeners of the load balancer are numbered in the order the accessor
\* lists them.  Listener l owns pool l, and pool l owns monitor l when it has
\* one.
ListenerIDs == DOMAIN listeners

\* Pool.MonitorID == "".
NoMonitor == 0

\* Cluster names: two stale ones and the target.  "kube" also occurs inside
\* servicePrefix.
ClusterA == <<"a">>
ClusterKube == <<"k","u","b","e">>
ClusterB == <<"b">>
Targets == {ClusterB}
Clusters == {ClusterA, ClusterKube, ClusterB}

\* "<servicePrefix><cluster>_n_s": the load-balancer name of service n/s.
GetLoadBalancerName(cluster) == servicePrefix \o cluster \o <<"_","n","_","s">>
ListenerName(cluster) == listenerPrefix \o <<"0","_">> \o GetLoadBalancerName(cluster)
PoolName(cluster) == poolPrefix \o <<"0","_">> \o GetLoadBalancerName(cluster)
MonitorName(cluster) == monitorPrefix \o <<"0","_">> \o GetLoadBalancerName(cluster)

\* Names of resources this system did not create.
ForeignListener == <<"e","d","g","e">>
ForeignPool == <<"w","e","b">>
ForeignMonitor == <<"p","i","n","g">>
\* "team:x", a tag that does not decode.
OpaqueTag == <<"t","e","a","m",":","x">>

\* Trees with one listener: every kind of name at every level.
LBNames == {GetLoadBalancerName(c) : c \in {ClusterA, ClusterKube}}
ListenerNames == {ListenerName(c) : c \in Clusters} \cup {ForeignListener}
PoolNames == {PoolName(c) : c \in Clusters} \cup {ForeignPool}
MonitorNames == {MonitorName(c) : c \in Clusters} \cup {ForeignMonitor}
TagLists ==
  { <<>>,
    <<OpaqueTag, GetLoadBalancerName(ClusterA), GetLoadBalancerName(ClusterB)>>,
    <<GetLoadBalancerName(ClusterKube)>> }

\* Trees with two listeners: fewer kinds of name at each level.
ListenerNames2 == {ListenerName(ClusterA), ListenerName(ClusterB), ForeignListener}
PoolNames2 == {PoolName(ClusterA), PoolName(ClusterB)}
MonitorNames2 == {MonitorName(ClusterA)}
TagLists2 == {<<OpaqueTag, GetLoadBalancerName(ClusterA)>>}


store == [lb |-> lb, listeners |-> listeners, pools |-> pools, monitors |-> monitors]
stored == <<lb, listeners, pools, monitors>>
args == <<clusterName, lbName>>
locals == <<lbTags, lbListeners, i, oldClusterName, lbPool, monitor, oldMonitorClusterName>>
history == <<ninv, tree0, ndone, first>>
vars == <<stored, pc, args, locals, err, calls, history>>
\* The variables renameLoadBalancer does not read or write.
concVars == <<world, world0, procs>>
cephVars == <<accessRights, cephx>>
aux == <<codec, concVars, cephVars>>

NoErr == "nil"
None == <<>>
NoPool == [id |-> 0, name |-> Empty, monitorID |-> NoMonitor]
NoMonitorRec == [id |-> 0, name |-> Empty]

\* No use of the codec on its own.
NoCodec == [pc |-> "none"]
\* No concurrent invocations, and no invocation of getOrCreateCephxAccess.
ConcIdle == world = None /\ world0 = None /\ procs = None
CephIdle == accessRights = <<>> /\ cephx = [pc |-> "none"]
AuxIdle == codec = NoCodec /\ ConcIdle /\ CephIdle

InFlight == {"list", "loop", "getPool", "getMonitor", "updateMonitor",
             "updatePool", "updateListener", "updateLB"}

\* The listeners ids with names and tag lists from the given sets, each with
\* its pool and the pool with or without a monitor.
TreeIn(ids, listenerNames, tagLists, poolNames, monitorNames) ==
  /\ listeners \in [ids -> [name : listenerNames, tags : tagLists]]
  /\ monitors \in [ids -> monitorNames \cup {Empty}]
  /\ \E poolName \in [ids -> poolNames] :
       pools = [l \in ids |->
                  [name |-> poolName[l],
                   monitorID |-> IF monitors[l] = Empty THEN NoMonitor ELSE l]]

Init ==
  /\ \/ /\ lb \in [name : LBNames, tags : TagLists]
        /\ TreeIn(1..1, ListenerNames, TagLists, PoolNames, MonitorNames)
     \/ /\ lb \in [name : {GetLoadBalancerName(ClusterA)}, tags : TagLists2]
        /\ TreeIn(1..2, ListenerNames2, TagLists2, PoolNames2, MonitorNames2)
  /\ pc = "idle"
  /\ clusterName \in Targets
  /\ lbName = GetLoadBalancerName(clusterName)
  /\ lbTags = <<>>
  /\ lbListeners = <<>>
  /\ i = 0
  /\ oldClusterName = Empty
  /\ lbPool = NoPool
  /\ monitor = NoMonitorRec
  /\ oldMonitorClusterName = Empty
  /\ err = NoErr
  /\ calls = <<>>
  /\ ninv = 0
  /\ tree0 = store
  /\ ndone = 0
  /\ first = None
  /\ AuxIdle


(* ------------------------------------------------------------------ *)
(* renameLoadBalancer, one action per accessor call                    *)
(* ------------------------------------------------------------------ *)

\* Errors an accessor call may return.
AccessorErrors == {"timeout", "conflict"}

ResetLocals ==
  /\ lbTags' = <<>>
  /\ lbListeners' = <<>>
  /\ i' = 0
  /\ oldClusterName' = Empty
  /\ lbPool' = NoPool
  /\ monitor' = NoMonitorRec
  /\ oldMonitorClusterName' = Empty

\* ReturnErr with the accessor's error replaced by another one.
ReturnErrReplaced(op, id, e) ==
  /\ pc' = "returned"
  /\ err' = "rename failed"
  /\ calls' = Append(calls, <<op, id, e>>)
  /\ ResetLocals
  /\ UNCHANGED <<stored, args, history>>

\* if err != nil { return nil, err }
ReturnErr(op, id, e) ==
  /\ pc' = "returned"
  /\ err' = e
  /\ calls' = Append(calls, <<op, id, e>>)
  /\ ResetLocals
  /\ UNCHANGED <<stored, args, history>>

Called(op, id) == Append(calls, <<op, id, NoErr>>)

\* ListenerStep without the comparison of the listener's cluster name.
ListenerStepNoClusterCheck(listenerName, cluster) ==
  IF ~isManaged(listenerName, listenerPrefix) THEN "skip" ELSE "getPool"

\* ListenerStep without the check of the listener prefix.
ListenerStepNoPrefixCheck(listenerName, cluster) ==
  IF ClusterOf(IndexedPrefix(listenerPrefix), listenerName) # cluster
    THEN "getPool"
    ELSE "skip"

\* What the loop body does with a listener: skip it, or go on to its pool.
ListenerStep(listenerName, cluster) ==
  IF ~isManaged(listenerName, listenerPrefix) THEN "skip"
  ELSE IF ClusterOf(IndexedPrefix(listenerPrefix), listenerName) # cluster
    THEN "getPool"
    ELSE "skip"

\* PoolStep with the monitor looked at whatever the pool's cluster name.
PoolStepMonitorFirst(pool, cluster) ==
  IF pool.monitorID # NoMonitor THEN "getMonitor"
  ELSE IF ClusterOf(IndexedPrefix(poolPrefix), pool.name) # cluster
    THEN "updatePool"
    ELSE "updateListener"

\* Where the loop body goes once the pool is fetched.
PoolStep(pool, cluster) ==
  IF ClusterOf(IndexedPrefix(poolPrefix), pool.name) # cluster
    THEN IF pool.monitorID # NoMonitor THEN "getMonitor" ELSE "updatePool"
    ELSE "updateListener"

\* Where the loop body goes once the monitor is fetched.
MonitorStep(monitorName, cluster) ==
  IF ClusterOf(IndexedPrefix(monitorPrefix), monitorName) # cluster
    THEN "updateMonitor"
    ELSE "updatePool"

\* The statement after the monitor block is the pool rename, and the statement
\* after the pool block is the listener's tag loop and rename.
AfterUpdateMonitor(pool) == "updatePool"
\* AfterUpdatePool with the monitor block placed after the pool rename.
AfterUpdatePoolThenMonitor(pool) ==
  IF pool.monitorID # NoMonitor THEN "getMonitor" ELSE "updateListener"
AfterUpdatePool(pool) == "updateListener"

\* The names the three rename statements compute.
NewMonitorName(oldCluster, cluster, name) == replaceClusterName(oldCluster, cluster, name)
NewPoolName(oldCluster, cluster, name) == replaceClusterName(oldCluster, cluster, name)
NewListenerName(oldCluster, cluster, name) == replaceClusterName(oldCluster, cluster, name)

\* PoolUpdateOpts with the monitor link supplied as well, empty.
PoolUpdateOptsWithMonitor(name) == [name |-> name, monitorID |-> NoMonitor]

\* pools.UpdateOpts{Name: &lbPool.Name}
PoolUpdateOpts(name) == [name |-> name]

\* The stored resource after an update call: the fields the options supply
\* are replaced, every other field is kept.
Updated(resource, opts) ==
  [f \in DOMAIN resource |-> IF f \in DOMAIN opts THEN opts[f] ELSE resource[f]]

\* The caller starts renameLoadBalancer on the load balancer it has fetched.
Invoke ==
  /\ pc \in {"idle", "returned", "crashed"}
  /\ ninv < MaxCalls
  /\ pc' = "list"
  /\ ninv' = ninv + 1
  /\ lbTags' = lb.tags
  /\ lbListeners' = <<>>
  /\ i' = 0
  /\ oldClusterName' = Empty
  /\ lbPool' = NoPool
  /\ monitor' = NoMonitorRec
  /\ oldMonitorClusterName' = Empty
  /\ err' = NoErr
  /\ calls' = <<>>
  /\ UNCHANGED <<stored, args, tree0, ndone, first>>

\* The listeners in the accessor's order.
ListedListeners ==
  [k \in 1..Cardinality(ListenerIDs) |->
     [id |-> k, name |-> listeners[k].name, tags |-> listeners[k].tags]]

\* openstackutil.GetListenersByLoadBalancerID
GetListeners ==
  /\ pc = "list"
  /\ \/ /\ lbListeners' = ListedListeners
        /\ i' = 1
        /\ pc' = "loop"
        /\ calls' = Called("GetListenersByLoadBalancerID", 0)
        /\ UNCHANGED <<stored, args, lbTags, oldClusterName, lbPool, monitor,
                       oldMonitorClusterName, err, history>>
     \/ \E e \in AccessorErrors : ReturnErr("GetListenersByLoadBalancerID", 0, e)

\* The head of "for _, listener := range lbListeners" with the prefix and
\* cluster-name checks of the listener; past the last listener, the tag loop
\* of the load balancer.
LoopHead ==
  /\ pc = "loop"
  /\ IF i > Len(lbListeners)
       THEN /\ lbTags' = RewriteTags(lbTags, clusterName)
            /\ pc' = "updateLB"
            /\ UNCHANGED <<i, oldClusterName>>
       ELSE LET listener == lbListeners[i]
            IN IF ListenerStep(listener.name, clusterName) = "getPool"
                 THEN /\ oldClusterName' =
                           ClusterOf(IndexedPrefix(listenerPrefix), listener.name)
                      /\ pc' = "getPool"
                      /\ UNCHANGED <<i, lbTags>>
                 ELSE /\ i' = i + 1
                      /\ UNCHANGED <<pc, oldClusterName, lbTags>>
  /\ UNCHANGED <<stored, args, lbListeners, lbPool, monitor,
                 oldMonitorClusterName, err, calls, history>>

\* openstackutil.GetPoolByListener; its cluster name is assigned to the
\* oldClusterName of the loop body.
GetPool ==
  /\ pc = "getPool"
  /\ LET id == lbListeners[i].id
     IN \/ /\ lbPool' = [id |-> id, name |-> pools[id].name,
                        monitorID |-> pools[id].monitorID]
           /\ oldClusterName' = ClusterOf(IndexedPrefix(poolPrefix), pools[id].name)
           /\ pc' = PoolStep(pools[id], clusterName)
           /\ calls' = Called("GetPoolByListener", id)
           /\ UNCHANGED <<stored, args, lbTags, lbListeners, i, monitor,
                          oldMonitorClusterName, err, history>>
        \/ \E e \in AccessorErrors : ReturnErr("GetPoolByListener", id, e)

\* openstackutil.GetHealthMonitor; its cluster name goes to the oldClusterName
\* declared inside the monitor block.
GetMonitor ==
  /\ pc = "getMonitor"
  /\ LET id == lbPool.monitorID
     IN \/ /\ monitor' = [id |-> id, name |-> monitors[id]]
           /\ oldMonitorClusterName' =
                ClusterOf(IndexedPrefix(monitorPrefix), monitors[id])
           /\ pc' = MonitorStep(monitors[id], clusterName)
           /\ calls' = Called("GetHealthMonitor", id)
           /\ UNCHANGED <<stored, args, lbTags, lbListeners, i, oldClusterName,
                          lbPool, err, history>>
        \/ \E e \in AccessorErrors : ReturnErr("GetHealthMonitor", id, e)

\* openstackutil.UpdateHealthMonitor with the rewritten monitor name
UpdateMonitor ==
  /\ pc = "updateMonitor"
  /\ \/ /\ monitors' = [monitors EXCEPT ![monitor.id] =
                          NewMonitorName(oldMonitorClusterName, clusterName, monitor.name)]
        /\ pc' = AfterUpdateMonitor(lbPool)
        /\ calls' = Called("UpdateHealthMonitor", monitor.id)
        /\ UNCHANGED <<lb, listeners, pools, args, locals, err, history>>
     \/ \E e \in AccessorErrors : ReturnErr("UpdateHealthMonitor", monitor.id, e)

\* openstackutil.UpdatePool with the rewritten pool name
UpdatePool ==
  /\ pc = "updatePool"
  /\ \/ /\ pools' = [pools EXCEPT ![lbPool.id] =
                       Updated(@, PoolUpdateOpts(
                         NewPoolName(oldClusterName, clusterName, lbPool.name)))]
        /\ pc' = AfterUpdatePool(lbPool)
        /\ calls' = Called("UpdatePool", lbPool.id)
        /\ UNCHANGED <<lb, listeners, monitors, args, locals, err, history>>
     \/ \E e \in AccessorErrors : ReturnErr("UpdatePool", lbPool.id, e)

\* The listener's tag loop, its rename and openstackutil.UpdateListener with
\* the name and the tags.
UpdateListener ==
  /\ pc = "updateListener"
  /\ LET listener == lbListeners[i]
     IN \/ /\ listeners' = [listeners EXCEPT ![listener.id] =
                  [name |-> NewListenerName(oldClusterName, clusterName, listener.name),
                   tags |-> RewriteTags(listener.tags, clusterName)]]
           /\ i' = i + 1
           /\ pc' = "loop"
           /\ calls' = Called("UpdateListener", listener.id)
           /\ oldClusterName' = Empty
           /\ lbPool' = NoPool
           /\ monitor' = NoMonitorRec
           /\ oldMonitorClusterName' = Empty
           /\ UNCHANGED <<lb, pools, monitors, args, lbTags, lbListeners, err, history>>
        \/ \E e \in AccessorErrors : ReturnErr("UpdateListener", listener.id, e)

\* openstackutil.UpdateLoadBalancer with lbName and the rewritten tags; its
\* result is the result of renameLoadBalancer.
UpdateLoadBalancer ==
  /\ pc = "updateLB"
  /\ \/ /\ lb' = [name |-> lbName, tags |-> lbTags]
        /\ pc' = "returned"
        /\ err' = NoErr
        /\ calls' = Called("UpdateLoadBalancer", 0)
        /\ ndone' = ndone + 1
        /\ first' = IF ninv = 1
                      THEN [lb |-> lb', listeners |-> listeners, pools |-> pools,
                            monitors |-> monitors]
                      ELSE first
        /\ ResetLocals
        /\ UNCHANGED <<listeners, pools, monitors, args, ninv, tree0>>
     \/ \E e \in AccessorErrors : ReturnErr("UpdateLoadBalancer", 0, e)

\* The process dies between two accessor calls.
Crash ==
  /\ pc \in InFlight
  /\ pc' = "crashed"
  /\ err' = NoErr
  /\ calls' = <<>>
  /\ ResetLocals
  /\ UNCHANGED <<stored, args, history>>

Next ==
  \/ Invoke /\ UNCHANGED aux
  \/ GetListeners /\ UNCHANGED aux
  \/ LoopHead /\ UNCHANGED aux
  \/ GetPool /\ UNCHANGED aux
  \/ GetMonitor /\ UNCHANGED aux
  \/ UpdateMonitor /\ UNCHANGED aux
  \/ UpdatePool /\ UNCHANGED aux
  \/ UpdateListener /\ UNCHANGED aux
  \/ UpdateLoadBalancer /\ UNCHANGED aux
  \/ Crash /\ UNCHANGED aux

Spec == Init /\ [][Next]_vars


(* ------------------------------------------------------------------ *)
(* migrate: renameLoadBalancer behind lbHasOldClusterName              *)
(* ------------------------------------------------------------------ *)

\* Load-balancer names this system did not create: "lb", and a name that
\* holds a managed name but does not begin with servicePrefix.
ForeignLB == <<"l","b">>
WrappedLB == <<"x">> \o GetLoadBalancerName(ClusterA)
\* "kube_service_x": managed, but it does not decode.
UndecodableLB == servicePrefix \o <<"x">>

\* "listener_x", "pool_x", "monitor_x": managed, but they do not decode.
UndecodableListener == listenerPrefix \o <<"x">>
UndecodablePool == poolPrefix \o <<"x">>
UndecodableMonitor == monitorPrefix \o <<"x">>

MigrateLBNames ==
  {ForeignLB, WrappedLB, UndecodableLB,
   GetLoadBalancerName(ClusterA), GetLoadBalancerName(ClusterB)}

InitMigrate ==
  /\ lb \in [name : MigrateLBNames, tags : TagLists2]
  /\ TreeIn(1..1, ListenerNames2 \cup {UndecodableListener}, TagLists2,
            PoolNames2 \cup {UndecodablePool},
            MonitorNames2 \cup {UndecodableMonitor})
  /\ pc = "idle"
  /\ clusterName \in Targets
  /\ lbName = GetLoadBalancerName(clusterName)
  /\ lbTags = <<>>
  /\ lbListeners = <<>>
  /\ i = 0
  /\ oldClusterName = Empty
  /\ lbPool = NoPool
  /\ monitor = NoMonitorRec
  /\ oldMonitorClusterName = Empty
  /\ err = NoErr
  /\ calls = <<>>
  /\ ninv = 0
  /\ tree0 = store
  /\ ndone = 0
  /\ first = None
  /\ AuxIdle

\* The caller renames only a load balancer that lbHasOldClusterName reports;
\* any other load balancer it keeps as it is.
Migrate ==
  IF lbHasOldClusterName(lb.name, clusterName)
    THEN Invoke
    ELSE /\ pc \in {"idle", "returned", "crashed"}
         /\ ninv < MaxCalls
         /\ pc' = "returned"
         /\ ninv' = ninv + 1
         /\ err' = NoErr
         /\ calls' = <<>>
         /\ ResetLocals
         /\ UNCHANGED <<stored, args, tree0, ndone, first>>

NextMigrate ==
  \/ Migrate /\ UNCHANGED aux
  \/ GetListeners /\ UNCHANGED aux
  \/ LoopHead /\ UNCHANGED aux
  \/ GetPool /\ UNCHANGED aux
  \/ GetMonitor /\ UNCHANGED aux
  \/ UpdateMonitor /\ UNCHANGED aux
  \/ UpdatePool /\ UNCHANGED aux
  \/ UpdateListener /\ UNCHANGED aux
  \/ UpdateLoadBalancer /\ UNCHANGED aux
  \/ Crash /\ UNCHANGED aux

SpecMigrate == InitMigrate /\ [][NextMigrate]_vars

(* ------------------------------------------------------------------ *)
(* The name codec on its own: decomposeLBName, replaceClusterName and  *)
(* decomposeLBName again                                               *)
(* ------------------------------------------------------------------ *)

\* renameLoadBalancer at rest.
RenameIdle ==
  /\ lb = [name |-> Empty, tags |-> <<>>]
  /\ listeners = <<>>
  /\ pools = <<>>
  /\ monitors = <<>>
  /\ pc = "idle"
  /\ clusterName = Empty
  /\ lbName = Empty
  /\ lbTags = <<>>
  /\ lbListeners = <<>>
  /\ i = 0
  /\ oldClusterName = Empty
  /\ lbPool = NoPool
  /\ monitor = NoMonitorRec
  /\ oldMonitorClusterName = Empty
  /\ err = NoErr
  /\ calls = <<>>
  /\ ninv = 0
  /\ tree0 = None
  /\ ndone = 0
  /\ first = None

\* The resource prefixes the callers pass, each with the literal text a name
\* of that kind begins with: no prefix for a load balancer or a tag, and
\* the prefix with a number for a listener, a pool or a monitor.
ResourcePrefixes ==
  {[pattern |-> Empty, text |-> Empty]} \cup
  {[pattern |-> IndexedPrefix(prefix), text |-> prefix \o number \o <<"_">>] :
     prefix \in {listenerPrefix, poolPrefix, monitorPrefix},
     number \in {<<"0">>, <<"1", "0">>}}

\* Cluster names, with and without separators, and one made of a digit.
CodecClusters ==
  {ClusterA, ClusterB, <<"a", "_", "b">>, <<"a", "_">>, <<"_">>, <<"0">>}
CodecTargets == {ClusterB, <<"c", "_", "d">>}
Namespaces == {<<"n">>, <<"n", "s">>}
ServiceNames == {<<"s">>}

\* Strings the pattern does not match: a foreign name, a prefix alone, and a
\* name with one field too few.
Unmatched ==
  {ForeignListener, servicePrefix, servicePrefix \o <<"a", "_", "n">>,
   servicePrefix \o <<"_", "n", "_", "s">>}

\* prefix + servicePrefix + identity + "_" + namespace + "_" + name
Compose(text, cluster, namespace, name) ==
  text \o servicePrefix \o cluster \o <<"_">> \o namespace \o <<"_">> \o name

NoTriple == <<Empty, Empty, Empty>>

InitCodec ==
  /\ RenameIdle
  /\ ConcIdle
  /\ CephIdle
  /\ \E rp \in ResourcePrefixes, target \in CodecTargets :
       \/ \E c \in CodecClusters, ns \in Namespaces, n \in ServiceNames :
            codec = [pc |-> "start", resourcePrefix |-> rp.pattern,
                     prefix |-> rp.text,
                     composed |-> <<c, ns, n>>,
                     objectName |-> Compose(rp.text, c, ns, n),
                     clusterName |-> target,
                     decoded |-> NoTriple, replaced |-> Empty, redecoded |-> NoTriple]
       \/ \E raw \in Unmatched :
            codec = [pc |-> "start", resourcePrefix |-> rp.pattern,
                     prefix |-> rp.text,
                     composed |-> NoTriple,
                     objectName |-> rp.text \o raw,
                     clusterName |-> target,
                     decoded |-> NoTriple, replaced |-> Empty, redecoded |-> NoTriple]

\* decomposeLBName(resourcePrefix, objectName)
Decompose ==
  /\ codec.pc = "start"
  /\ codec' = [codec EXCEPT
       !.pc = "decoded",
       !.decoded = decomposeLBName(codec.resourcePrefix, codec.objectName)]
  /\ UNCHANGED <<vars, concVars, cephVars>>

\* replaceClusterName(decoded cluster name, clusterName, objectName)
Replace ==
  /\ codec.pc = "decoded"
  /\ codec' = [codec EXCEPT
       !.pc = "replaced",
       !.replaced = replaceClusterName(codec.decoded[1], codec.clusterName,
                                       codec.objectName)]
  /\ UNCHANGED <<vars, concVars, cephVars>>

\* decomposeLBName(resourcePrefix, replaced name)
DecomposeReplaced ==
  /\ codec.pc = "replaced"
  /\ codec' = [codec EXCEPT
       !.pc = "done",
       !.redecoded = decomposeLBName(codec.resourcePrefix, codec.replaced)]
  /\ UNCHANGED <<vars, concVars, cephVars>>

NextCodec ==
  \/ Decompose
  \/ Replace
  \/ DecomposeReplaced

SpecCodec == InitCodec /\ [][NextCodec]_<<vars, aux>>

(* ------------------------------------------------------------------ *)
(* renameLoadBalancer as a function of the tree: a run in which every  *)
(* accessor call succeeds                                              *)
(* ------------------------------------------------------------------ *)

\* The loop body for listener l on the tree st.
RunListener(st, l, cluster) ==
  LET listener == st.listeners[l]
      pool == st.pools[l]
      poolCluster == ClusterOf(IndexedPrefix(poolPrefix), pool.name)
      step == PoolStep(pool, cluster)
      mon == st.monitors[l]
      st1 == IF step = "getMonitor" /\ MonitorStep(mon, cluster) = "updateMonitor"
               THEN [st EXCEPT !.monitors[l] =
                       NewMonitorName(ClusterOf(IndexedPrefix(monitorPrefix), mon),
                                      cluster, mon)]
               ELSE st
      st2 == IF step # "updateListener"
               THEN [st1 EXCEPT !.pools[l].name =
                       NewPoolName(poolCluster, cluster, pool.name)]
               ELSE st1
  IN IF ListenerStep(listener.name, cluster) = "skip" THEN st
     ELSE [st2 EXCEPT !.listeners[l] =
             [name |-> NewListenerName(poolCluster, cluster, listener.name),
              tags |-> RewriteTags(listener.tags, cluster)]]

\* The listener loop over listeners 1..n.
RECURSIVE RunListeners(_, _, _)
RunListeners(st, n, cluster) ==
  IF n = 0 THEN st ELSE RunListener(RunListeners(st, n - 1, cluster), n, cluster)

\* The tree after renameLoadBalancer(st.lb, name, cluster) has returned without error.
RunOnce(st, cluster, name) ==
  [RunListeners(st, Cardinality(DOMAIN st.listeners), cluster)
     EXCEPT !.lb = [name |-> name, tags |-> RewriteTags(st.lb.tags, cluster)]]

(* ------------------------------------------------------------------ *)
(* Two invocations of renameLoadBalancer at the same time, on the same *)
(* load balancer or on two, one step per accessor call                 *)
(* ------------------------------------------------------------------ *)

Procs == {1, 2}
LBIDs == {1, 2}

\* Both invocations have the same target.
TargetCluster == ClusterB
TargetName == GetLoadBalancerName(TargetCluster)

\* The elements of a set of numbers in increasing order.
RECURSIVE SortedSeq(_)
SortedSeq(S) ==
  IF S = {} THEN <<>> ELSE <<SetMin(S)>> \o SortedSeq(S \ {SetMin(S)})

\* ListedListenersOf without the load-balancer ID: every listener.
ListedListenersAll(w, lbID) ==
  LET ids == SortedSeq(DOMAIN w.listeners)
  IN [k \in DOMAIN ids |->
        [id |-> ids[k], name |-> w.listeners[ids[k]].name,
         tags |-> w.listeners[ids[k]].tags]]

\* GetListenersByLoadBalancerID(client, loadbalancer.ID): the listeners of
\* that load balancer.
ListedListenersOf(w, lbID) ==
  LET ids == SortedSeq({l \in DOMAIN w.listeners : w.owner[l] = lbID})
  IN [k \in DOMAIN ids |->
        [id |-> ids[k], name |-> w.listeners[ids[k]].name,
         tags |-> w.listeners[ids[k]].tags]]

\* ListenerRead with the stored listener read again before the rename.
ListenerReadFresh(listed, storedListener) ==
  [id |-> listed.id, name |-> storedListener.name, tags |-> storedListener.tags]

\* The listener the loop body renames is the one the listing returned.
ListenerRead(listed, storedListener) == listed

IdleProc(lbID) ==
  [lbID |-> lbID, pc |-> "idle", lbTags |-> <<>>, lbListeners |-> <<>>, i |-> 0,
   oldClusterName |-> Empty, lbPool |-> NoPool, monitor |-> NoMonitorRec,
   oldMonitorClusterName |-> Empty, err |-> NoErr, calls |-> <<>>]

\* Listener 1 with its pool and monitor belongs to load balancer 1, listener
\* 2 to load balancer 2.  Invocation 1 is on load balancer 1, invocation 2
\* on either.
InitConcurrent ==
  /\ RenameIdle
  /\ codec = NoCodec
  /\ CephIdle
  /\ \E tags \in [LBIDs -> {<<>>, <<GetLoadBalancerName(ClusterA)>>}],
        mons \in [1..2 -> {Empty, MonitorName(ClusterA)}] :
       world = [lbs |-> [k \in LBIDs |->
                          [name |-> GetLoadBalancerName(ClusterA), tags |-> tags[k]]],
                owner |-> [l \in 1..2 |-> l],
                listeners |-> [l \in 1..2 |->
                          [name |-> ListenerName(ClusterA), tags |-> tags[l]]],
                pools |-> [l \in 1..2 |->
                          [name |-> PoolName(ClusterA),
                           monitorID |-> IF mons[l] = Empty THEN NoMonitor ELSE l]],
                monitors |-> mons]
  /\ world0 = world
  /\ \E lbID \in LBIDs : procs = [p \in Procs |-> IdleProc(IF p = 1 THEN 1 ELSE lbID)]

\* An accessor call of invocation p: <<op, id, result, value stored>>.
CalledBy(p, op, id, result, value) == Append(procs[p].calls, <<op, id, result, value>>)

\* if err != nil { return nil, err }
ReturnErrBy(p, op, id, e) ==
  /\ procs' = [procs EXCEPT ![p] =
       [IdleProc(@.lbID) EXCEPT !.pc = "returned", !.err = e,
                               !.calls = CalledBy(p, op, id, e, None)]]
  /\ UNCHANGED <<world, world0>>

InvokeBy(p) ==
  /\ procs[p].pc = "idle"
  /\ procs' = [procs EXCEPT ![p].pc = "list",
                            ![p].lbTags = world.lbs[procs[p].lbID].tags]
  /\ UNCHANGED <<world, world0>>

GetListenersBy(p) ==
  /\ procs[p].pc = "list"
  /\ \/ /\ procs' = [procs EXCEPT
               ![p].lbListeners = ListedListenersOf(world, procs[p].lbID),
               ![p].i = 1,
               ![p].pc = "loop",
               ![p].calls = CalledBy(p, "GetListenersByLoadBalancerID",
                                     procs[p].lbID, NoErr, None)]
        /\ UNCHANGED <<world, world0>>
     \/ \E e \in AccessorErrors :
          ReturnErrBy(p, "GetListenersByLoadBalancerID", procs[p].lbID, e)

LoopHeadBy(p) ==
  /\ procs[p].pc = "loop"
  /\ LET r == procs[p]
     IN IF r.i > Len(r.lbListeners)
          THEN procs' = [procs EXCEPT
                 ![p].lbTags = RewriteTags(r.lbTags, TargetCluster),
                 ![p].pc = "updateLB"]
          ELSE LET listener == r.lbListeners[r.i]
               IN IF ListenerStep(listener.name, TargetCluster) = "getPool"
                    THEN procs' = [procs EXCEPT
                           ![p].oldClusterName =
                              ClusterOf(IndexedPrefix(listenerPrefix), listener.name),
                           ![p].pc = "getPool"]
                    ELSE procs' = [procs EXCEPT ![p].i = r.i + 1]
  /\ UNCHANGED <<world, world0>>

GetPoolBy(p) ==
  /\ procs[p].pc = "getPool"
  /\ LET id == procs[p].lbListeners[procs[p].i].id
     IN \/ /\ procs' = [procs EXCEPT
                  ![p].lbPool = [id |-> id, name |-> world.pools[id].name,
                                 monitorID |-> world.pools[id].monitorID],
                  ![p].oldClusterName =
                     ClusterOf(IndexedPrefix(poolPrefix), world.pools[id].name),
                  ![p].pc = PoolStep(world.pools[id], TargetCluster),
                  ![p].calls = CalledBy(p, "GetPoolByListener", id, NoErr, None)]
           /\ UNCHANGED <<world, world0>>
        \/ \E e \in AccessorErrors : ReturnErrBy(p, "GetPoolByListener", id, e)

GetMonitorBy(p) ==
  /\ procs[p].pc = "getMonitor"
  /\ LET id == procs[p].lbPool.monitorID
     IN \/ /\ procs' = [procs EXCEPT
                  ![p].monitor = [id |-> id, name |-> world.monitors[id]],
                  ![p].oldMonitorClusterName =
                     ClusterOf(IndexedPrefix(monitorPrefix), world.monitors[id]),
                  ![p].pc = MonitorStep(world.monitors[id], TargetCluster),
                  ![p].calls = CalledBy(p, "GetHealthMonitor", id, NoErr, None)]
           /\ UNCHANGED <<world, world0>>
        \/ \E e \in AccessorErrors : ReturnErrBy(p, "GetHealthMonitor", id, e)

UpdateMonitorBy(p) ==
  /\ procs[p].pc = "updateMonitor"
  /\ LET r == procs[p]
         name == NewMonitorName(r.oldMonitorClusterName, TargetCluster, r.monitor.name)
     IN \/ /\ world' = [world EXCEPT !.monitors[r.monitor.id] = name]
           /\ procs' = [procs EXCEPT
                  ![p].pc = AfterUpdateMonitor(r.lbPool),
                  ![p].calls = CalledBy(p, "UpdateHealthMonitor", r.monitor.id,
                                        NoErr, name)]
           /\ UNCHANGED world0
        \/ \E e \in AccessorErrors :
             ReturnErrBy(p, "UpdateHealthMonitor", r.monitor.id, e)

UpdatePoolBy(p) ==
  /\ procs[p].pc = "updatePool"
  /\ LET r == procs[p]
         name == NewPoolName(r.oldClusterName, TargetCluster, r.lbPool.name)
     IN \/ /\ world' = [world EXCEPT !.pools[r.lbPool.id] =
                                        Updated(@, PoolUpdateOpts(name))]
           /\ procs' = [procs EXCEPT
                  ![p].pc = AfterUpdatePool(r.lbPool),
                  ![p].calls = CalledBy(p, "UpdatePool", r.lbPool.id, NoErr, name)]
           /\ UNCHANGED world0
        \/ \E e \in AccessorErrors : ReturnErrBy(p, "UpdatePool", r.lbPool.id, e)

UpdateListenerBy(p) ==
  /\ procs[p].pc = "updateListener"
  /\ LET r == procs[p]
         listed == r.lbListeners[r.i]
         listener == ListenerRead(listed, world.listeners[listed.id])
         value == [name |-> NewListenerName(r.oldClusterName, TargetCluster,
                                            listener.name),
                   tags |-> RewriteTags(listener.tags, TargetCluster)]
     IN \/ /\ world' = [world EXCEPT !.listeners[listener.id] = value]
           /\ procs' = [procs EXCEPT
                  ![p].i = r.i + 1,
                  ![p].pc = "loop",
                  ![p].oldClusterName = Empty,
                  ![p].lbPool = NoPool,
                  ![p].monitor = NoMonitorRec,
                  ![p].oldMonitorClusterName = Empty,
                  ![p].calls = CalledBy(p, "UpdateListener", listener.id, NoErr, value)]
           /\ UNCHANGED world0
        \/ \E e \in AccessorErrors : ReturnErrBy(p, "UpdateListener", listed.id, e)

UpdateLoadBalancerBy(p) ==
  /\ procs[p].pc = "updateLB"
  /\ LET r == procs[p]
         value == [name |-> TargetName, tags |-> r.lbTags]
     IN \/ /\ world' = [world EXCEPT !.lbs[r.lbID] = value]
           /\ procs' = [procs EXCEPT ![p] =
                  [IdleProc(r.lbID) EXCEPT
                     !.pc = "returned",
                     !.calls = CalledBy(p, "UpdateLoadBalancer", r.lbID, NoErr, value)]]
           /\ UNCHANGED world0
        \/ \E e \in AccessorErrors : ReturnErrBy(p, "UpdateLoadBalancer", r.lbID, e)

NextConcurrent ==
  \E p \in Procs :
    \/ InvokeBy(p) /\ UNCHANGED <<vars, codec, cephVars>>
    \/ GetListenersBy(p) /\ UNCHANGED <<vars, codec, cephVars>>
    \/ LoopHeadBy(p) /\ UNCHANGED <<vars, codec, cephVars>>
    \/ GetPoolBy(p) /\ UNCHANGED <<vars, codec, cephVars>>
    \/ GetMonitorBy(p) /\ UNCHANGED <<vars, codec, cephVars>>
    \/ UpdateMonitorBy(p) /\ UNCHANGED <<vars, codec, cephVars>>
    \/ UpdatePoolBy(p) /\ UNCHANGED <<vars, codec, cephVars>>
    \/ UpdateListenerBy(p) /\ UNCHANGED <<vars, codec, cephVars>>
    \/ UpdateLoadBalancerBy(p) /\ UNCHANGED <<vars, codec, cephVars>>

SpecConcurrent == InitConcurrent /\ [][NextConcurrent]_<<vars, aux>>

\* The listener loop over the listed listeners ids, one after the other.
RECURSIVE RunListenersIn(_, _, _)
RunListenersIn(st, ids, cluster) ==
  IF ids = <<>> THEN st
  ELSE RunListener(RunListenersIn(st, SubSeq(ids, 1, Len(ids) - 1), cluster),
                   ids[Len(ids)], cluster)

\* The world after renameLoadBalancer on load balancer lbID has returned
\* without error, with no other invocation at work.
RunOnceOn(w, lbID, cluster, name) ==
  [RunListenersIn(w, SortedSeq({l \in DOMAIN w.listeners : w.owner[l] = lbID}), cluster)
     EXCEPT !.lbs[lbID] = [name |-> name, tags |-> RewriteTags(w.lbs[lbID].tags, cluster)]]

(* ------------------------------------------------------------------ *)
(* getOrCreateCephxAccess, getAccess and grantAccessCephx, one step    *)
(* per call of the share service                                       *)
(* ------------------------------------------------------------------ *)

\* Polls of gophercloud.WaitFor(120, ...) before it gives up.
MaxPolls == 3
\* Access rules the share can have apart from the one granted here.
MaxRules == 2

\* The zero value of shares.AccessRight.
NoRight == [id |-> "", accessType |-> "", accessTo |-> "", accessKey |-> ""]

TimeoutErr == "A timeout occurred"
CountErr == "unexpected number of access rules"
NotFoundErr == "access rule not found"
TypeErr == "wrong type for access rule"
MissingErr == "missing AccessKey or AccessTo"

\* args.Share.Name and args.Options.OSShareAccessID
ShareNames == {"", "share"}
AccessIDs == {"", "r1", "r9"}

\* The rules the share has at the start: none, or rule r1.
InitialRules ==
  {<<>>} \cup
  {<<[id |-> "r1", accessType |-> t, accessTo |-> to, accessKey |-> k]>> :
     t \in {"cephx", "ip"}, to \in {"", "share"}, k \in {"", "key"}}

InitCephx ==
  /\ RenameIdle
  /\ codec = NoCodec
  /\ ConcIdle
  /\ accessRights \in InitialRules
  /\ \E name \in ShareNames, accessID \in AccessIDs :
       cephx = [pc |-> "start", shareName |-> name, accessID |-> accessID,
                grants |-> 0, polls |-> 0, listed |-> <<>>, listErr |-> NoErr,
                granted |-> NoRight, grantErr |-> NoErr,
                accessRight |-> NoRight, err |-> NoErr]

\* The checks of getOrCreateCephxAccess on the access right it has got.
CheckedTypeOnly(accessRight) ==
  IF accessRight.accessType # "cephx" THEN TypeErr ELSE NoErr

Checked(accessRight) ==
  IF accessRight.accessType # "cephx" THEN TypeErr
  ELSE IF accessRight.accessKey = "" \/ accessRight.accessTo = "" THEN MissingErr
  ELSE NoErr

\* getOrCreateCephxAccess returns: nil and the error, or the access right.
Return(c, accessRight, e) ==
  IF e # NoErr THEN [c EXCEPT !.pc = "returned", !.accessRight = NoRight, !.err = e]
  ELSE IF Checked(accessRight) # NoErr
    THEN [c EXCEPT !.pc = "returned", !.accessRight = NoRight,
                   !.err = Checked(accessRight)]
    ELSE [c EXCEPT !.pc = "returned", !.accessRight = accessRight, !.err = NoErr]

\* grantAccessCephx returns to getOrCreateCephxAccess.
GrantReturn(c, accessRight, e) ==
  Return([c EXCEPT !.granted = accessRight, !.grantErr = e], accessRight, e)

\* The predicate of WaitFor accepting the first rule whatever the list.
PollFirstRule(listed) ==
  IF Len(listed) = 0 THEN "again" ELSE "done"

\* The predicate of WaitFor on the rules a poll has listed.
Poll(listed) ==
  IF Len(listed) > 1 THEN "error"
  ELSE IF Len(listed) = 0 THEN "again"
  ELSE IF listed[1].accessKey # "" THEN "done"
  ELSE "again"

\* getOrCreateCephxAccess: args.Options.OSShareAccessID != ""
GetOrCreateCephxAccess ==
  /\ cephx.pc = "start"
  /\ cephx' = [cephx EXCEPT !.pc = IF cephx.accessID # "" THEN "getAccess" ELSE "grant"]
  /\ UNCHANGED accessRights

\* getAccess: GetAccessRights and the search for accessID
GetAccess ==
  /\ cephx.pc = "getAccess"
  /\ \/ LET c == [cephx EXCEPT !.listed = accessRights]
             found == {k \in DOMAIN accessRights : accessRights[k].id = cephx.accessID}
         IN cephx' = IF found = {} THEN Return(c, NoRight, NotFoundErr)
                     ELSE Return(c, accessRights[SetMin(found)], NoErr)
     \/ \E e \in AccessorErrors :
          cephx' = Return([cephx EXCEPT !.listErr = e], NoRight, e)
  /\ UNCHANGED accessRights

\* grantAccessCephx: args.Client.GrantAccess; the share service adds the rule,
\* without a key yet.
GrantAccess ==
  /\ cephx.pc = "grant"
  /\ \/ /\ accessRights' = Append(accessRights,
             [id |-> "new", accessType |-> "cephx", accessTo |-> cephx.shareName,
              accessKey |-> ""])
        /\ cephx' = [cephx EXCEPT !.pc = "poll", !.grants = @ + 1]
     \/ /\ \E e \in AccessorErrors :
             cephx' = GrantReturn([cephx EXCEPT !.grants = @ + 1], NoRight, e)
        /\ UNCHANGED accessRights

\* One turn of gophercloud.WaitFor: the limit, then the predicate with
\* GetAccessRights.
WaitFor ==
  /\ cephx.pc = "poll"
  /\ IF cephx.polls >= MaxPolls
       THEN cephx' = GrantReturn(cephx, NoRight, TimeoutErr)
       ELSE \/ LET c == [cephx EXCEPT !.polls = @ + 1, !.listed = accessRights]
                   step == Poll(accessRights)
               IN cephx' = CASE step = "error" -> GrantReturn(c, NoRight, CountErr)
                             [] step = "again" -> c
                             [] step = "done" -> GrantReturn(c, accessRights[1], NoErr)
            \/ \E e \in AccessorErrors :
                 cephx' = GrantReturn([cephx EXCEPT !.polls = @ + 1, !.listErr = e],
                                      NoRight, e)
  /\ UNCHANGED accessRights

\* The storage backend generates the key of a rule.
BackendKey ==
  /\ \E k \in DOMAIN accessRights :
       /\ accessRights[k].accessKey = ""
       /\ accessRights' = [accessRights EXCEPT ![k].accessKey = "key"]
  /\ UNCHANGED cephx

\* Another client adds a rule to the share.
OtherGrant ==
  /\ Len(accessRights) < MaxRules
  /\ accessRights' = Append(accessRights,
       [id |-> "r2", accessType |-> "ip", accessTo |-> "10.0.0.1", accessKey |-> ""])
  /\ UNCHANGED cephx

NextCephx ==
  \/ GetOrCreateCephxAccess /\ UNCHANGED <<vars, codec, concVars>>
  \/ GetAccess /\ UNCHANGED <<vars, codec, concVars>>
  \/ GrantAccess /\ UNCHANGED <<vars, codec, concVars>>
  \/ WaitFor /\ UNCHANGED <<vars, codec, concVars>>
  \/ BackendKey /\ UNCHANGED <<vars, codec, concVars>>
  \/ OtherGrant /\ UNCHANGED <<vars, codec, concVars>>

SpecCephx == InitCephx /\ [][NextCephx]_<<vars, aux>>

(* ------------------------------------------------------------------ *)
(* Properties                                                          *)
(* ------------------------------------------------------------------ *)

Completed == pc = "returned" /\ err = NoErr

ListenerCluster(name) == ClusterOf(IndexedPrefix(listenerPrefix), name)
PoolCluster(name) == ClusterOf(IndexedPrefix(poolPrefix), name)
MonitorCluster(name) == ClusterOf(IndexedPrefix(monitorPrefix), name)

UpdateOps == {"UpdateHealthMonitor", "UpdatePool", "UpdateListener", "UpdateLoadBalancer"}

\* A tree as one provisioning flow with one stale cluster name leaves it:
\* every listener that is managed decodes to a stale cluster name, and its
\* pool and the pool's monitor are managed and decode to the same one.
ConsistentSubtree(st, l, cluster) ==
  LET c == ListenerCluster(st.listeners[l].name)
  IN isManaged(st.listeners[l].name, listenerPrefix) =>
       /\ c # Empty /\ c # cluster
       /\ c = ClusterOf(Empty, st.lb.name)
       /\ isManaged(st.pools[l].name, poolPrefix)
       /\ PoolCluster(st.pools[l].name) = c
       /\ st.pools[l].monitorID # NoMonitor =>
            /\ isManaged(st.monitors[l], monitorPrefix)
            /\ MonitorCluster(st.monitors[l]) = c

ConsistentAtStart ==
  \A l \in DOMAIN tree0.listeners : ConsistentSubtree(tree0, l, clusterName)

\* A name that decodes is rewritten to one that decodes to the target: its
\* cluster name does not occur before its own place in the name.
RewritesCleanly(resourcePrefix, name, cluster) ==
  LET c == ClusterOf(resourcePrefix, name)
  IN c # Empty =>
       ClusterOf(resourcePrefix, replaceClusterName(c, cluster, name)) = cluster

\* A consistently named tree all of whose names and tags rewrite cleanly.
PlainAtStart ==
  /\ ConsistentAtStart
  /\ \A k \in DOMAIN tree0.lb.tags : RewritesCleanly(Empty, tree0.lb.tags[k], clusterName)
  /\ \A l \in DOMAIN tree0.listeners :
       /\ RewritesCleanly(IndexedPrefix(listenerPrefix), tree0.listeners[l].name, clusterName)
       /\ RewritesCleanly(IndexedPrefix(poolPrefix), tree0.pools[l].name, clusterName)
       /\ RewritesCleanly(IndexedPrefix(monitorPrefix), tree0.monitors[l], clusterName)
       /\ \A k \in DOMAIN tree0.listeners[l].tags :
            RewritesCleanly(Empty, tree0.listeners[l].tags[k], clusterName)

\* C1 (crash-safety), for trees that start consistently named with names
\* that rewrite cleanly: the first invocation that completes, after any
\* number of invocations cut short by a crash or a failed accessor call,
\* leaves the stored tree equal to the tree of a single uninterrupted run on
\* the initial tree.
C1_CrashSafety ==
  (PlainAtStart /\ Completed /\ ndone = 1) =>
    store = RunOnce(tree0, clusterName, lbName)

\* C2 (commit point), for trees that start consistently named with names
\* that rewrite cleanly: once the stored load-balancer name is the new name,
\* every managed listener, its pool and the pool's monitor (where managed)
\* decode to the target cluster name.
C2_CommitPoint ==
  (PlainAtStart /\ lb.name = lbName) =>
    \A l \in ListenerIDs :
      isManaged(listeners[l].name, listenerPrefix) =>
        /\ ListenerCluster(listeners[l].name) = clusterName
        /\ isManaged(pools[l].name, poolPrefix) =>
             PoolCluster(pools[l].name) = clusterName
        /\ (pools[l].monitorID # NoMonitor /\ isManaged(monitors[l], monitorPrefix)) =>
             MonitorCluster(monitors[l]) = clusterName

\* The place of an update call in the cascade.
Rank(op) ==
  CASE op = "UpdateHealthMonitor" -> 1
    [] op = "UpdatePool" -> 2
    [] op = "UpdateListener" -> 3
    [] op = "UpdateLoadBalancer" -> 4

\* C3 (ordering): among the update calls of an invocation, nothing follows
\* the load-balancer update, and within one listener's subtree the monitor
\* update precedes the pool update, which precedes the listener update.
C3_Ordering ==
  \A j, k \in DOMAIN calls :
    (j < k /\ calls[j][1] \in UpdateOps /\ calls[k][1] \in UpdateOps) =>
      /\ calls[j][1] # "UpdateLoadBalancer"
      /\ calls[j][2] = calls[k][2] => Rank(calls[j][1]) < Rank(calls[k][1])

\* C3 witness: an invocation has updated a monitor, its pool, its listener
\* and then the load balancer.
C3_Witness ==
  /\ Completed
  /\ \E a, b, c, d \in DOMAIN calls :
       /\ a < b /\ b < c /\ c < d
       /\ calls[a][1] = "UpdateHealthMonitor"
       /\ calls[b][1] = "UpdatePool" /\ calls[b][2] = calls[a][2]
       /\ calls[c][1] = "UpdateListener" /\ calls[c][2] = calls[a][2]
       /\ calls[d][1] = "UpdateLoadBalancer"

\* C4 (idempotence), for trees that start consistently named: when the
\* first two invocations both complete, the second leaves the stored tree
\* as the first left it.
C4_Idempotence ==
  (ConsistentAtStart /\ Completed /\ ninv = 2 /\ ndone = 2) => store = first

\* A failed accessor call is the last call of its invocation, and the
\* invocation has returned with that call's error.
C5_FailureStops ==
  \A k \in DOMAIN calls :
    calls[k][3] # NoErr =>
      /\ k = Len(calls)
      /\ pc = "returned"
      /\ err = calls[k][3]

\* The step of a failed call adds that call alone to the trace and leaves
\* every stored name and tag as it was.
C5_NoRollback ==
  (calls' # calls /\ calls' # <<>> /\ calls'[Len(calls')][3] # NoErr) =>
    /\ stored' = stored
    /\ calls' = Append(calls, calls'[Len(calls')])

\* C5 (failure semantics): a failed accessor call (a lookup or an update,
\* the load-balancer update included) is the last call of its invocation,
\* the invocation returns that call's error, and every rename persisted
\* before it stays in place.
C5_FailureSemantics == []C5_FailureStops /\ [][C5_NoRollback]_vars

\* C5 witness: an invocation has returned the error of a failed listener
\* update with the pool rename it had persisted before still in place.
C5_Witness ==
  /\ pc = "returned" /\ err \in AccessorErrors
  /\ Len(calls) >= 2
  /\ calls[Len(calls)][1] = "UpdateListener"
  /\ calls[Len(calls) - 1] = <<"UpdatePool", calls[Len(calls)][2], NoErr>>
  /\ pools # tree0.pools

\* A step that leaves foreign resources alone.
C6_Step ==
  /\ \A l \in ListenerIDs :
       /\ ~isManaged(listeners[l].name, listenerPrefix) => listeners'[l] = listeners[l]
       /\ ~isManaged(pools[l].name, poolPrefix) => pools'[l] = pools[l]
       /\ (pools[l].monitorID # NoMonitor /\ ~isManaged(monitors[l], monitorPrefix)) =>
            monitors'[l] = monitors[l]
  /\ (calls' # calls /\ calls' # <<>>) =>
       LET c == calls'[Len(calls')]
       IN /\ c[1] = "UpdateListener" => isManaged(listeners[c[2]].name, listenerPrefix)
          /\ c[1] = "UpdatePool" => isManaged(pools[c[2]].name, poolPrefix)
          /\ c[1] = "UpdateHealthMonitor" => isManaged(monitors[c[2]], monitorPrefix)

\* C6 (foreign-resource isolation): no step changes the name or tags of a
\* listener, the name of a pool or the name of a monitor that lacks its
\* kind's prefix, and no update call is issued for one.
C6_ForeignIsolation == [][C6_Step]_vars

\* What the claim allows a tag to become.
TagPreserved(old, new, cluster) ==
  LET d == decomposeLBName(Empty, old)
  IN IF d[1] = Empty \/ d[1] = cluster
       THEN new = old
       ELSE decomposeLBName(Empty, new) = <<cluster, d[2], d[3]>>

TagsPreserved(old, new, cluster) ==
  /\ Len(new) = Len(old)
  /\ \A k \in DOMAIN old : TagPreserved(old[k], new[k], cluster)

\* A step that stores tags only as the claim allows.
C7_Step ==
  /\ lb' # lb => TagsPreserved(lb.tags, lb'.tags, clusterName)
  /\ \A l \in ListenerIDs :
       listeners'[l] # listeners[l] =>
         TagsPreserved(listeners[l].tags, listeners'[l].tags, clusterName)

\* C7 (tag preservation): every step that stores a listener or the load
\* balancer keeps each tag that does not decode or decodes to the target,
\* at its position, and turns each other tag into one that decodes to the
\* target with the same namespace and name.
C7_TagPreservation == [][C7_Step]_vars

\* A tag list holds a tag rewritten to the target / a tag still to rewrite.
TagsRewritten(tags, tags0, cluster) ==
  \E k \in DOMAIN tags : tags[k] # tags0[k] /\ ClusterOf(Empty, tags[k]) = cluster
TagsStale(tags, cluster) ==
  \E k \in DOMAIN tags : ClusterOf(Empty, tags[k]) \notin {Empty, cluster}
NameStale(name, cluster) == ListenerCluster(name) \notin {Empty, cluster}
NameRewritten(name, name0, cluster) ==
  name # name0 /\ ListenerCluster(name) = cluster

\* C8 (name and tags together), for trees that start consistently named with
\* names that rewrite cleanly: no managed listener is stored with tags
\* rewritten to the target while its name still decodes to a stale cluster
\* name, nor with its name rewritten while a tag still decodes to a stale
\* one.
C8_NameAndTagsTogether ==
  PlainAtStart =>
    \A l \in ListenerIDs :
      isManaged(listeners[l].name, listenerPrefix) =>
        /\ ~(/\ TagsRewritten(listeners[l].tags, tree0.listeners[l].tags, clusterName)
             /\ NameStale(listeners[l].name, clusterName))
        /\ ~(/\ NameRewritten(listeners[l].name, tree0.listeners[l].name, clusterName)
             /\ TagsStale(listeners[l].tags, clusterName))


\* C9 as claimed (each level checked independently): once the loop body is
\* past the pool of a listener whose pool decodes to the target while the
\* pool's monitor is managed and decodes to a stale cluster name, the
\* invocation has updated that monitor.
C9_MonitorCheckedIndependently ==
  (/\ pc = "updateListener"
   /\ oldClusterName = clusterName
   /\ lbPool.monitorID # NoMonitor
   /\ isManaged(monitors[lbPool.monitorID], monitorPrefix)
   /\ MonitorCluster(monitors[lbPool.monitorID]) \notin {Empty, clusterName})
  => \E k \in DOMAIN calls : calls[k] = <<"UpdateHealthMonitor", lbPool.monitorID, NoErr>>

\* C9 as amended: once the loop body is past the pool of a listener whose
\* pool decodes to the target, the invocation has issued neither the lookup
\* nor the update of that pool's monitor.
C9_MonitorInsidePoolBranch ==
  (pc = "updateListener" /\ oldClusterName = clusterName) =>
    \A k \in DOMAIN calls :
      ~(/\ calls[k][1] \in {"GetHealthMonitor", "UpdateHealthMonitor"}
        /\ calls[k][2] = lbPool.id)

\* C9 witness: a stale managed listener whose pool decodes to the target and
\* whose pool's monitor is managed and stale, past the pool check.
C9_Witness ==
  /\ pc = "updateListener"
  /\ oldClusterName = clusterName
  /\ ListenerCluster(lbListeners[i].name) = ClusterA
  /\ lbPool.monitorID # NoMonitor
  /\ MonitorCluster(monitors[lbPool.monitorID]) = ClusterA

ListenerCurrent(name, cluster) ==
  isManaged(name, listenerPrefix) /\ ListenerCluster(name) = cluster

\* C10 (AlreadyCurrent skip): for a listed listener that is managed and
\* decodes to the target, the invocation issues no accessor call on the
\* listener, its pool or its monitor, and the stored listener keeps the
\* name and tags it was listed with.
C10_AlreadyCurrentSkip ==
  \A k \in DOMAIN lbListeners :
    ListenerCurrent(lbListeners[k].name, clusterName) =>
      /\ \A j \in DOMAIN calls : calls[j][2] # lbListeners[k].id
      /\ listeners[lbListeners[k].id].name = lbListeners[k].name
      /\ listeners[lbListeners[k].id].tags = lbListeners[k].tags

\* C10 witness: the loop is past a current listener and a stale listener it
\* has updated, with the current listener's pool still stale.
C10_Witness ==
  /\ pc = "updateLB"
  /\ \E k, m \in DOMAIN lbListeners :
       /\ ListenerCurrent(lbListeners[k].name, clusterName)
       /\ PoolCluster(pools[lbListeners[k].id].name) = ClusterA
       /\ \E j \in DOMAIN calls : calls[j] = <<"UpdateListener", lbListeners[m].id, NoErr>>

\* C11 (foreign listener skipped with its subtree): a listener whose name
\* lacks the listener prefix keeps its name and tags, its pool and the pool's
\* monitor keep their names, whatever they are, no invocation issues a lookup
\* or an update for any of the three, and an invocation that completes has
\* still renamed the load balancer.
C11_ForeignListenerSkipped ==
  /\ \A l \in ListenerIDs :
       ~isManaged(tree0.listeners[l].name, listenerPrefix) =>
         /\ listeners[l] = tree0.listeners[l]
         /\ pools[l] = tree0.pools[l]
         /\ monitors[l] = tree0.monitors[l]
         /\ \A j \in DOMAIN calls : calls[j][2] # l
  /\ Completed => lb.name = lbName

\* C11 witness: an invocation has completed and renamed the load balancer
\* past a foreign listener whose pool and monitor are managed and stale.
C11_Witness ==
  /\ Completed
  /\ tree0.lb.name # lbName /\ lb.name = lbName
  /\ \E l \in ListenerIDs :
       /\ ~isManaged(listeners[l].name, listenerPrefix)
       /\ pools[l].name = PoolName(ClusterA)
       /\ monitors[l] = MonitorName(ClusterA)

\* C12 (unmanaged load balancer is a no-op): for a load balancer whose name
\* does not begin with servicePrefix, lbHasOldClusterName reports no
\* mismatch, no accessor call is issued, no error is returned and the stored
\* tree stays as it was; a load balancer whose name begins with
\* servicePrefix is reported exactly when its decoded cluster name differs
\* from the target, a rename is in flight only for a reported one, and one
\* that starts with the target's cluster name stays as it was.
C12_UnmanagedNoOp ==
  /\ ~isManaged(tree0.lb.name, servicePrefix) =>
       /\ ~lbHasOldClusterName(lb.name, clusterName)
       /\ store = tree0
       /\ calls = <<>>
       /\ err = NoErr
       /\ pc \in {"idle", "returned"}
  /\ isManaged(lb.name, servicePrefix) =>
       (lbHasOldClusterName(lb.name, clusterName)
          <=> ClusterOf(Empty, lb.name) # clusterName)
  /\ pc \in InFlight =>
       isManaged(lb.name, servicePrefix) /\ ClusterOf(Empty, lb.name) # clusterName
  /\ (isManaged(tree0.lb.name, servicePrefix)
        /\ ClusterOf(Empty, tree0.lb.name) = clusterName) =>
       store = tree0 /\ calls = <<>>

\* C12 witness: migrate has returned on a load balancer that holds a stale
\* managed name behind a foreign first character, over a stale managed
\* listener.
C12_Witness ==
  /\ ninv = 1 /\ pc = "returned" /\ err = NoErr
  /\ lb.name = WrappedLB
  /\ ClusterOf(Empty, lb.name) = ClusterA
  /\ listeners[1].name = ListenerName(ClusterA)

\* The pattern resourcePrefix + servicePrefix + "(.+)_([^_]+)_([^_]+)" matches
\* somewhere in raw: after the prefixes come a non-empty first field, a
\* separator, a non-empty field without separator, a separator and a
\* character that is no separator.
HasMatch(resourcePrefix, raw) ==
  \E k \in 1..Len(raw) :
    \E p \in PrefixEnds(resourcePrefix \o servicePrefix, raw, k) :
      \E u, v \in 1..Len(raw) :
        /\ p < u /\ u + 1 < v /\ v < Len(raw)
        /\ raw[u] = "_" /\ raw[v] = "_" /\ raw[v + 1] # "_"
        /\ \A j \in (u + 1)..(v - 1) : raw[j] # "_"

\* C15 (decompose parses greedily on the left): decomposeLBName returns
\* three strings; for a string composed as prefix + servicePrefix + identity
\* + "_" + namespace + "_" + name, with a non-empty identity that may hold
\* separators and a namespace and a name that are non-empty and hold none,
\* they are that identity, namespace and name; for a string the pattern
\* does not match they are three empty strings.
C15_DecomposeGreedy ==
  codec.pc \in {"decoded", "replaced", "done"} =>
    /\ Len(codec.decoded) = 3
    /\ codec.composed # NoTriple => codec.decoded = codec.composed
    /\ ~HasMatch(codec.resourcePrefix, codec.objectName) => codec.decoded = NoTriple

\* C15 witness: a listener name whose cluster name holds a separator has
\* been decoded.
C15_Witness ==
  /\ codec.pc = "decoded"
  /\ codec.resourcePrefix = IndexedPrefix(listenerPrefix)
  /\ codec.composed[1] = <<"a", "_", "b">>
  /\ codec.decoded = codec.composed

\* old occurs in orig, and out is orig with the first occurrence of old
\* replaced by new.
FirstOccurrenceReplaced(orig, old, new, out) ==
  \E k \in 1..Len(orig) :
    /\ SubSeq(orig, k, k + Len(old) - 1) = old
    /\ \A j \in 1..(k - 1) : SubSeq(orig, j, j + Len(old) - 1) # old
    /\ out = SubSeq(orig, 1, k - 1) \o new \o SubSeq(orig, k + Len(old), Len(orig))

\* The literal prefixes of the names.
LiteralPrefixes == {servicePrefix, listenerPrefix, poolPrefix, monitorPrefix}

\* C16 (rewrite round-trip): for a name that decodes, to a cluster name that
\* occurs in none of the literal prefixes, replaceClusterName replaces the
\* first occurrence of the decoded cluster name and nothing else, the
\* result decodes to the target with the namespace and name it had, and it
\* still begins with its prefix and number.
C16_RoundTrip ==
  (/\ codec.pc = "done"
   /\ codec.decoded[1] # Empty
   /\ \A literal \in LiteralPrefixes : Index(literal, codec.decoded[1]) = 0) =>
    /\ FirstOccurrenceReplaced(codec.objectName, codec.decoded[1],
                               codec.clusterName, codec.replaced)
    /\ codec.redecoded = <<codec.clusterName, codec.decoded[2], codec.decoded[3]>>
    /\ HasPrefix(codec.replaced, codec.prefix \o servicePrefix)

\* A step that keeps every name that carries its prefix and does not decode,
\* and that stores no name computed with an empty old cluster name.
C17_Step ==
  /\ \A l \in ListenerIDs :
       /\ (isManaged(listeners[l].name, listenerPrefix)
            /\ ListenerCluster(listeners[l].name) = Empty) =>
              listeners'[l].name = listeners[l].name
       /\ (isManaged(pools[l].name, poolPrefix)
            /\ PoolCluster(pools[l].name) = Empty) =>
              pools'[l].name = pools[l].name
       /\ (pools[l].monitorID # NoMonitor
            /\ isManaged(monitors[l], monitorPrefix)
            /\ MonitorCluster(monitors[l]) = Empty) =>
              monitors'[l] = monitors[l]
  /\ monitors' # monitors => oldMonitorClusterName # Empty
  /\ pools' # pools => oldClusterName # Empty
  /\ listeners' # listeners => oldClusterName # Empty

\* C17 (undecodable managed names): no step changes the name of a listener,
\* pool or monitor that carries its prefix and does not decode, and no step
\* stores a name that replaceClusterName computed with an empty old cluster
\* name.
C17_UndecodableKept == [][C17_Step]_vars

\* A step that creates and destroys nothing and keeps every link.
C18_Step ==
  /\ DOMAIN lb' = DOMAIN lb
  /\ DOMAIN listeners' = DOMAIN listeners
  /\ DOMAIN pools' = DOMAIN pools
  /\ DOMAIN monitors' = DOMAIN monitors
  /\ \A l \in ListenerIDs :
       /\ DOMAIN listeners'[l] = DOMAIN listeners[l]
       /\ DOMAIN pools'[l] = DOMAIN pools[l]
       /\ pools'[l].monitorID = pools[l].monitorID
       /\ (monitors'[l] = Empty) <=> (monitors[l] = Empty)

\* C18 (only reads and renames): every step keeps the load balancer, the
\* listeners, the pools and the monitors that exist, with their ids and
\* fields, and each pool's link to its monitor; what a step changes is a
\* name, or a name and tags.
C18_OnlyRenames == [][C18_Step]_vars

\* C18 witness: two invocations have completed and renamed a monitor, a
\* pool, a listener and the load balancer, and the pool still has its
\* monitor.
C18_Witness ==
  /\ Completed /\ ndone = 2
  /\ lb.name # tree0.lb.name
  /\ \E l \in ListenerIDs :
       /\ listeners[l].name # tree0.listeners[l].name
       /\ pools[l].name # tree0.pools[l].name
       /\ monitors[l] # tree0.monitors[l]
       /\ pools[l].monitorID = l

\* A listener update stores the name and tags computed from the listener as
\* the invocation listed it, whatever is stored when the call is issued.
C13_Step ==
  \A p \in Procs :
    (procs[p].pc = "updateListener" /\ procs'[p].pc = "loop") =>
      LET r == procs[p]
          listed == r.lbListeners[r.i]
      IN world'.listeners[listed.id] =
           [name |-> NewListenerName(r.oldClusterName, TargetCluster, listed.name),
            tags |-> RewriteTags(listed.tags, TargetCluster)]

\* C13 (lost update without exclusivity): with two invocations interleaved
\* at accessor calls, each listener update overwrites the stored listener
\* with the value computed from the invocation's own, possibly stale,
\* listing; the witness is the lost update this makes reachable.
C13_StaleWrite == [][C13_Step]_<<vars, aux>>

\* C13 witness: both invocations are on the same load balancer, one has
\* stored a listener under its new name, and the other has then stored the
\* same listener, from its stale listing, under the old name.
C13_Witness ==
  \E p, q \in Procs :
    /\ p # q
    /\ procs[p].lbID = procs[q].lbID
    /\ \E a \in DOMAIN procs[p].calls, b \in DOMAIN procs[q].calls :
         LET x == procs[p].calls[a]
             y == procs[q].calls[b]
         IN /\ x[1] = "UpdateListener" /\ x[3] = NoErr
            /\ y[1] = "UpdateListener" /\ y[3] = NoErr
            /\ x[2] = y[2]
            /\ ListenerCluster(x[4].name) = TargetCluster
            /\ world.listeners[y[2]] = y[4]
            /\ world.listeners[y[2]].name = world0.listeners[y[2]].name

CompletedBy(p) == procs[p].pc = "returned" /\ procs[p].err = NoErr

\* The resources of load balancer lbID in the world w.
SubtreeOf(w, lbID) ==
  LET ids == {l \in DOMAIN w.listeners : w.owner[l] = lbID}
  IN [lb |-> w.lbs[lbID],
      listeners |-> [l \in ids |-> w.listeners[l]],
      pools |-> [l \in ids |-> w.pools[l]],
      monitors |-> [l \in ids |-> w.monitors[l]]]

\* C14 (disjoint load balancers): when the two invocations are on different
\* load balancers, every accessor call of an invocation is on its own load
\* balancer or on a listener, pool or monitor of it; the resources of a
\* load balancer whose invocation has not started are as at the start, and
\* those of one whose invocation has completed are as after a run on its
\* own; and once both have completed the world is the one that running
\* them one after the other, in either order, gives.
C14_DisjointEffects ==
  procs[1].lbID # procs[2].lbID =>
    /\ \A p \in Procs : \A k \in DOMAIN procs[p].calls :
         LET c == procs[p].calls[k]
         IN IF c[1] \in {"GetListenersByLoadBalancerID", "UpdateLoadBalancer"}
              THEN c[2] = procs[p].lbID
              ELSE world.owner[c[2]] = procs[p].lbID
    /\ \A p \in Procs :
         /\ procs[p].pc = "idle" =>
              SubtreeOf(world, procs[p].lbID) = SubtreeOf(world0, procs[p].lbID)
         /\ CompletedBy(p) =>
              SubtreeOf(world, procs[p].lbID) =
                SubtreeOf(RunOnceOn(world0, procs[p].lbID, TargetCluster, TargetName),
                          procs[p].lbID)
    /\ (CompletedBy(1) /\ CompletedBy(2)) =>
         /\ world = RunOnceOn(RunOnceOn(world0, 1, TargetCluster, TargetName),
                              2, TargetCluster, TargetName)
         /\ world = RunOnceOn(RunOnceOn(world0, 2, TargetCluster, TargetName),
                              1, TargetCluster, TargetName)

\* C14 witness: the invocations are on different load balancers and both in
\* flight, each with its pool renamed and its listener still to rename.
C14_Witness ==
  /\ procs[1].lbID # procs[2].lbID
  /\ \A p \in Procs :
       /\ procs[p].pc = "updateListener"
       /\ \E k \in DOMAIN procs[p].calls :
            procs[p].calls[k][1] = "UpdatePool" /\ procs[p].calls[k][3] = NoErr

\* A poll has listed no rule, or one rule without a key.
NoKeyYet(listed) ==
  Len(listed) = 0 \/ (Len(listed) = 1 /\ listed[1].accessKey = "")

\* C19 (grantAccessCephx): one grant request comes before every poll; a
\* grant that succeeded has ended on a poll that listed exactly one rule,
\* with a key, and returned that rule; polling goes on after a poll exactly
\* when it listed no rule or one rule without a key, up to the limit; a
\* failed grant request ends it before any poll, a failed poll ends it with
\* that poll's error, a poll that listed more than one rule ends it with an
\* error, and at the limit it ends with the timeout error.
C19_GrantPolls ==
  LET c == cephx
      ended == c.pc = "returned"
  IN (c.pc # "none" /\ c.accessID = "") =>
       /\ c.grants <= 1
       /\ c.polls <= MaxPolls
       /\ c.polls > 0 => c.grants = 1
       /\ (ended /\ c.grantErr = NoErr) =>
            /\ c.polls >= 1
            /\ Len(c.listed) = 1
            /\ c.listed[1].accessKey # ""
            /\ c.granted = c.listed[1]
       /\ (c.pc = "poll" /\ c.polls > 0) => NoKeyYet(c.listed)
       /\ (c.polls > 0 /\ c.listErr = NoErr /\ NoKeyYet(c.listed)) =>
            \/ c.pc = "poll"
            \/ ended /\ c.grantErr = TimeoutErr /\ c.polls = MaxPolls
       /\ (ended /\ c.polls = 0) => c.grantErr \in AccessorErrors /\ c.grants = 1
       /\ c.listErr # NoErr => ended /\ c.grantErr = c.listErr
       /\ (c.polls > 0 /\ c.listErr = NoErr /\ Len(c.listed) > 1) =>
            ended /\ c.grantErr = CountErr
       /\ (ended /\ c.grantErr # NoErr) => c.granted = NoRight /\ c.err = c.grantErr

\* C19 witness: the grant has succeeded on its third poll, after polls that
\* listed the new rule without a key.
C19_Witness ==
  /\ cephx.pc = "returned" /\ cephx.accessID = ""
  /\ cephx.grantErr = NoErr
  /\ cephx.polls = 3
  /\ cephx.granted.id = "new"

\* C20 (getOrCreateCephxAccess): an access right is returned without error
\* only if its type is cephx and its key and access-to are not empty, and
\* with an error none is returned; with an access ID configured no grant
\* request and no poll is issued, the access right returned is the listed
\* rule with that ID, and when the listing holds no rule with that ID the
\* error says so.
C20_GetOrCreate ==
  LET c == cephx
      ended == c.pc = "returned"
  IN c.pc # "none" =>
       /\ (ended /\ c.err = NoErr) =>
            /\ c.accessRight.accessType = "cephx"
            /\ c.accessRight.accessKey # ""
            /\ c.accessRight.accessTo # ""
       /\ (ended /\ c.err # NoErr) => c.accessRight = NoRight
       /\ c.accessID # "" =>
            /\ c.grants = 0 /\ c.polls = 0
            /\ (ended /\ c.err = NoErr) =>
                 /\ c.accessRight.id = c.accessID
                 /\ \E k \in DOMAIN c.listed : c.listed[k] = c.accessRight
            /\ (ended /\ c.listErr = NoErr
                 /\ \A k \in DOMAIN c.listed : c.listed[k].id # c.accessID) =>
                 c.err = NotFoundErr

\* C20 witness: with access ID r1 configured, rule r1 has been returned
\* from a share that has another rule as well.
C20_Witness ==
  /\ cephx.pc = "returned" /\ cephx.err = NoErr
  /\ cephx.accessID = "r1"
  /\ cephx.accessRight.id = "r1"
  /\ Len(cephx.listed) = 2

====
